---- MODULE Spec2Model ----
(***************************************************************************)
(* Impersonation-rule management of dataikuapi/dss/admin.py:               *)
(* DSSGeneralSettings (fetch at construction, save, add / get / remove     *)
(* impersonation rules) and the two rule builders                          *)
(* DSSUserImpersonationRule and DSSGroupImpersonationRule.                 *)
(*                                                                         *)
(* A Python dict holding a rule is a function from Fields to strings, with *)
(* Absent for a key the dict does not hold and None for a key bound to     *)
(* Python's None.  Two dicts are == in Python exactly when the two         *)
(* functions are equal.                                                    *)
(***************************************************************************)
EXTENDS Integers, Sequences, FiniteSets, TLC

VARIABLES
    remote,     \* the settings document stored on the DSS instance (JSON)
    settings,   \* settings[s]: self.settings of session s's DSSGeneralSettings
    rule,       \* the rule builder object held by the caller (SpecBuilder)
    clean,      \* clean[s]: no mutation by s and no other writer since s fetched
    atFetch,    \* atFetch[s]: the remote document s fetched, kept while clean[s]
    saved,      \* saved[s]: s has saved the copy it holds now
    ids,        \* the object held at each position of s1's two lists (SpecViews)
    heldId,     \* the object that is the raw of the caller's builder (SpecViews)
    call,       \* the code env / cluster operation that has just ended (SpecOps)
    last        \* the call that has just returned: its arguments and result

vars == <<remote, settings, rule, clean, atFetch, saved, ids, heldId, call, last>>

-----------------------------------------------------------------------------
(* Bounds and value domains *)

\* Cap on len(userRules) + len(groupRules) of one document.
MaxRules == 2

Sessions == {"s1", "s2"}

Absent == "ABSENT"
None == "NONE"

Fields == {"type", "scope", "dssUser", "dssGroup", "projectKey", "ruleFrom",
           "targetUnix", "targetHadoop"}

Users == {"alice", "bob"}
Groups == {"staff"}
UnixUsers == {"u_alice", "u_bob"}
HadoopUsers == {"h_alice"}
Projects == {"P1"}
Regexps == {"a.*"}

-----------------------------------------------------------------------------
(* Python dict primitives *)

EmptyRaw == [k \in Fields |-> Absent]

\* raw[k] = v
Put(raw, k, v) == [raw EXCEPT ![k] = v]

\* m.get(k, None)
Get(m, k) == IF m[k] = Absent THEN None ELSE m[k]

-----------------------------------------------------------------------------
(* Rule builders.  A builder is [kind, raw]; arg is <<>> for raw=None and    *)
(* <<raw>> for a record to wrap.                                            *)

DSSUserImpersonationRule(arg) ==
    [kind |-> "user",
     raw  |-> IF Len(arg) > 0 THEN arg[1]
              ELSE Put(Put(EmptyRaw, "scope", "GLOBAL"), "type", "IDENTITY")]

DSSGroupImpersonationRule(arg) ==
    [kind |-> "group",
     raw  |-> IF Len(arg) > 0 THEN arg[1]
              ELSE Put(EmptyRaw, "type", "IDENTITY")]

scope_global(b) == [b EXCEPT !.raw = Put(@, "scope", "GLOBAL")]

scope_project(b, project_key) ==
    [b EXCEPT !.raw = Put(Put(@, "scope", "PROJECT"), "projectKey", project_key)]

user_identity(b) == [b EXCEPT !.raw = Put(@, "type", "IDENTITY")]

user_single_fallback(b, dss_user, unix_user, hadoop_user) ==
    [b EXCEPT !.raw =
        Put(Put(Put(Put(@, "type", "SINGLE_MAPPING"), "dssUser", dss_user),
                "targetUnix", unix_user),
            "targetHadoop", IF hadoop_user = None THEN unix_user ELSE hadoop_user)]

user_single(b, dss_user, unix_user, hadoop_user) ==
    [b EXCEPT !.raw =
        Put(Put(Put(Put(@, "type", "SINGLE_MAPPING"), "dssUser", dss_user),
                "targetUnix", unix_user),
            "targetHadoop", hadoop_user)]

user_regexp(b, regexp, unix_user, hadoop_user) ==
    [b EXCEPT !.raw =
        Put(Put(Put(Put(@, "type", "REGEXP_RULE"), "ruleFrom", regexp),
                "targetUnix", unix_user),
            "targetHadoop", hadoop_user)]

group_identity(b) == [b EXCEPT !.raw = Put(@, "type", "IDENTITY")]

group_single(b, dss_group, unix_user, hadoop_user) ==
    [b EXCEPT !.raw =
        Put(Put(Put(Put(@, "type", "SINGLE_MAPPING"), "dssGroup", dss_group),
                "targetUnix", unix_user),
            "targetHadoop", hadoop_user)]

group_regexp(b, regexp, unix_user, hadoop_user) ==
    [b EXCEPT !.raw =
        Put(Put(Put(Put(@, "type", "REGEXP_RULE"), "ruleFrom", regexp),
                "targetUnix", unix_user),
            "targetHadoop", hadoop_user)]

NoRule == [kind |-> "none", raw |-> EmptyRaw]

-----------------------------------------------------------------------------
(* Query: get_impersonation_rules *)

\* A filter combination: the eight keyword arguments, None when not supplied.
\* is_user is "True", "False" or None.
NoFilter ==
    [dss_user |-> None, dss_group |-> None, unix_user |-> None,
     hadoop_user |-> None, project_key |-> None, scope |-> None,
     rule_type |-> None, is_user |-> None]

\* if val is not None: matches = [m for m in matches if val == m.get(field, None)]
Narrow(matches, val, field) ==
    IF val # None THEN SelectSeq(matches, LAMBDA m : val = Get(m, field))
    ELSE matches

user_matches_only_true(doc, F) ==
    LET m0 == IF F.is_user = "True" THEN doc.userRules ELSE <<>>
        m1 == Narrow(m0, F.dss_user, "dssUser")
        m2 == Narrow(m1, F.unix_user, "targetUnix")
        m3 == Narrow(m2, F.hadoop_user, "targetHadoop")
        m4 == Narrow(m3, F.project_key, "projectKey")
        m5 == Narrow(m4, F.rule_type, "type")
    IN  Narrow(m5, F.scope, "scope")

user_matches_hadoop_unix(doc, F) ==
    LET m0 == IF F.is_user = None \/ F.is_user = "True" THEN doc.userRules ELSE <<>>
        m1 == Narrow(m0, F.dss_user, "dssUser")
        m2 == Narrow(m1, F.unix_user, "targetUnix")
        m3 == Narrow(m2, F.hadoop_user, "targetUnix")
        m4 == Narrow(m3, F.project_key, "projectKey")
        m5 == Narrow(m4, F.rule_type, "type")
    IN  Narrow(m5, F.scope, "scope")

user_matches(doc, F) ==
    LET m0 == IF F.is_user = None \/ F.is_user = "True" THEN doc.userRules ELSE <<>>
        m1 == Narrow(m0, F.dss_user, "dssUser")
        m2 == Narrow(m1, F.unix_user, "targetUnix")
        m3 == Narrow(m2, F.hadoop_user, "targetHadoop")
        m4 == Narrow(m3, F.project_key, "projectKey")
        m5 == Narrow(m4, F.rule_type, "type")
    IN  Narrow(m5, F.scope, "scope")

group_matches_project(doc, F) ==
    LET m0 == IF F.is_user = None \/ F.is_user = "False" THEN doc.groupRules ELSE <<>>
        m1 == Narrow(m0, F.dss_group, "dssGroup")
        m2 == Narrow(m1, F.unix_user, "targetUnix")
        m3 == Narrow(m2, F.hadoop_user, "targetHadoop")
        m4 == Narrow(m3, F.project_key, "projectKey")
    IN  Narrow(m4, F.rule_type, "type")

group_matches_dss_user(doc, F) ==
    LET m0 == IF F.is_user = None \/ F.is_user = "False" THEN doc.groupRules ELSE <<>>
        m1 == Narrow(m0, F.dss_user, "dssUser")
        m2 == Narrow(m1, F.dss_group, "dssGroup")
        m3 == Narrow(m2, F.unix_user, "targetUnix")
        m4 == Narrow(m3, F.hadoop_user, "targetHadoop")
    IN  Narrow(m4, F.rule_type, "type")

group_matches(doc, F) ==
    LET m0 == IF F.is_user = None \/ F.is_user = "False" THEN doc.groupRules ELSE <<>>
        m1 == Narrow(m0, F.dss_group, "dssGroup")
        m2 == Narrow(m1, F.unix_user, "targetUnix")
        m3 == Narrow(m2, F.hadoop_user, "targetHadoop")
    IN  Narrow(m3, F.rule_type, "type")

all_matches_groups_first(um, gm) ==
    [i \in 1..Len(gm) |-> DSSGroupImpersonationRule(<<gm[i]>>)]
      \o [i \in 1..Len(um) |-> DSSUserImpersonationRule(<<um[i]>>)]

\* all_matches: the user matches wrapped, then the group matches wrapped
all_matches(um, gm) ==
    [i \in 1..Len(um) |-> DSSUserImpersonationRule(<<um[i]>>)]
      \o [i \in 1..Len(gm) |-> DSSGroupImpersonationRule(<<gm[i]>>)]

get_impersonation_rules(doc, F) ==
    all_matches(user_matches(doc, F), group_matches(doc, F))

-----------------------------------------------------------------------------
(* Removal: remove_impersonation_rules *)

\* Index of the first element of seq equal to x, 0 when there is none.
IndexOf(seq, x) ==
    IF \E i \in 1..Len(seq) : seq[i] = x
    THEN CHOOSE i \in 1..Len(seq) :
            seq[i] = x /\ \A j \in 1..(i - 1) : seq[j] # x
    ELSE 0

list_remove_all(seq, x) ==
    [list |-> SelectSeq(seq, LAMBDA e : e # x), raised |-> IndexOf(seq, x) = 0]

\* list.remove(x): deletes the first element equal to x; ValueError when
\* no element is equal to x.
list_remove(seq, x) ==
    LET i == IndexOf(seq, x)
    IN  IF i = 0 THEN [list |-> seq, raised |-> TRUE]
        ELSE [list |-> SubSeq(seq, 1, i - 1) \o SubSeq(seq, i + 1, Len(seq)),
              raised |-> FALSE]

\* The body of the for loop, for the views that are left; an exception ends
\* the loop with the document as modified so far.
RECURSIVE remove_each(_, _)
remove_each(st, views) ==
    IF views = <<>> \/ st.raised THEN st
    ELSE LET m == Head(views)
             r == IF m.kind = "user"
                  THEN list_remove(st.doc.userRules, m.raw)
                  ELSE list_remove(st.doc.groupRules, m.raw)
             d == IF m.kind = "user"
                  THEN [st.doc EXCEPT !.userRules = r.list]
                  ELSE [st.doc EXCEPT !.groupRules = r.list]
         IN  remove_each([doc |-> d, raised |-> r.raised], Tail(views))

\* A removal that walks the stored list itself while deleting from it:
\* for m in rules: if m matches: rules.remove(m)
RECURSIVE remove_walk(_, _, _, _)
remove_walk(seq, i, F, kind) ==
    IF i > Len(seq) THEN seq
    ELSE LET one == IF kind = "user"
                    THEN user_matches([userRules |-> <<seq[i]>>, groupRules |-> <<>>], F)
                    ELSE group_matches([userRules |-> <<>>, groupRules |-> <<seq[i]>>], F)
         IN  IF one # <<>>
             THEN remove_walk(list_remove(seq, seq[i]).list, i + 1, F, kind)
             ELSE remove_walk(seq, i + 1, F, kind)

remove_impersonation_rules_live(doc, F) ==
    [doc |-> [userRules |-> remove_walk(doc.userRules, 1, F, "user"),
              groupRules |-> remove_walk(doc.groupRules, 1, F, "group")],
     raised |-> FALSE]

\* The document after the call, and whether the call raised.
remove_impersonation_rules(doc, F) ==
    remove_each([doc |-> doc, raised |-> FALSE], get_impersonation_rules(doc, F))

-----------------------------------------------------------------------------
(* Addition: add_impersonation_rule.  rule is a builder or, with kind       *)
(* "dict", a plain dict.                                                   *)

add_impersonation_rule_as_passed(doc, r, is_user_rule) ==
    IF is_user_rule
    THEN [doc EXCEPT !.userRules = Append(@, r.raw)]
    ELSE [doc EXCEPT !.groupRules = Append(@, r.raw)]

add_impersonation_rule(doc, r, is_user_rule) ==
    LET rule_raw == r.raw
        is_user == IF r.kind = "user" THEN TRUE
                   ELSE IF r.kind = "group" THEN FALSE
                   ELSE is_user_rule
    IN  IF is_user
        THEN [doc EXCEPT !.userRules = Append(@, rule_raw)]
        ELSE [doc EXCEPT !.groupRules = Append(@, rule_raw)]

-----------------------------------------------------------------------------
(* The transport: the document travels as JSON.  A JSON object is the set   *)
(* of its <<key, value>> members, None being written null.                 *)

to_json(raw) ==
    {<<k, IF raw[k] = None THEN "null" ELSE raw[k]>> :
        k \in {f \in Fields : raw[f] # Absent}}

from_json(obj) ==
    [k \in Fields |->
        IF \E p \in obj : p[1] = k
        THEN LET v == (CHOOSE p \in obj : p[1] = k)[2]
             IN  IF v = "null" THEN None ELSE v
        ELSE Absent]

json_dumps(doc) ==
    [userRules  |-> [i \in 1..Len(doc.userRules) |-> to_json(doc.userRules[i])],
     groupRules |-> [i \in 1..Len(doc.groupRules) |-> to_json(doc.groupRules[i])]]

json_loads(j) ==
    [userRules  |-> [i \in 1..Len(j.userRules) |-> from_json(j.userRules[i])],
     groupRules |-> [i \in 1..Len(j.groupRules) |-> from_json(j.groupRules[i])]]

\* client._perform_json("GET", "/admin/general-settings")
perform_json_get == json_loads(remote)

\* The remote document after
\* client._perform_empty("PUT", "/admin/general-settings", body = body)
perform_empty_put(body) == json_dumps(body)

EmptyDoc == [userRules |-> <<>>, groupRules |-> <<>>]
EmptyJson == json_dumps(EmptyDoc)

\* A save that sends the user rules and drops the rest of the body.
save_user_rules_only(s) ==
    perform_empty_put([settings[s] EXCEPT !.groupRules = <<>>])

\* A save that updates the user rules of the remote document in place.
save_partial_update(s) ==
    [remote EXCEPT !.userRules = json_dumps(settings[s]).userRules]

\* The remote document after session s's save().
save(s) == perform_empty_put(settings[s])

-----------------------------------------------------------------------------
(* Inputs: the rules, documents and filter combinations the callers use *)

\* {type: IDENTITY, scope: GLOBAL}
U1 == DSSUserImpersonationRule(<<>>).raw

\* {type: SINGLE_MAPPING, scope: PROJECT, projectKey: P1, dssUser: alice,
\*  targetUnix: u_alice}, as read from the remote document
U2 ==
    Put(Put(Put(Put(Put(EmptyRaw, "type", "SINGLE_MAPPING"), "scope", "PROJECT"),
                "projectKey", "P1"), "dssUser", "alice"), "targetUnix", "u_alice")

U3 == user_single(DSSUserImpersonationRule(<<>>), "bob", "u_alice", "h_alice").raw

\* {type: IDENTITY}
G1 == DSSGroupImpersonationRule(<<>>).raw

G2 == group_single(DSSGroupImpersonationRule(<<>>), "staff", "u_alice", None).raw

PlainDict(raw) == [kind |-> "dict", raw |-> raw]

RuleArgs ==
    {DSSUserImpersonationRule(<<r>>) : r \in {U1, U2, U3}}
      \cup {DSSGroupImpersonationRule(<<r>>) : r \in {G1, G2}}
      \cup {PlainDict(U2)}

SessionRuleArgs ==
    {DSSUserImpersonationRule(<<U3>>), DSSGroupImpersonationRule(<<G1>>)}

ExampleDoc == [userRules |-> <<U1, U2>>, groupRules |-> <<>>]

InitRemotes == {EmptyJson, json_dumps(ExampleDoc)}

SessionRemotes ==
    {EmptyJson, json_dumps([userRules |-> <<U2>>, groupRules |-> <<G2>>])}

Filters ==
    [dss_user    : {None, "alice"},
     dss_group   : {None, "staff"},
     unix_user   : {None, "u_alice"},
     hadoop_user : {None, "h_alice"},
     project_key : {None, "P1"},
     scope       : {None, "PROJECT"},
     rule_type   : {None, "SINGLE_MAPPING"},
     is_user     : {None, "True", "False"}]

SessionFilters ==
    {[NoFilter EXCEPT !.rule_type = "SINGLE_MAPPING"],
     [NoFilter EXCEPT !.is_user = "False"]}

WrapPool == {U2, G2}

-----------------------------------------------------------------------------
(* State machine *)

\* No object: the caller holds no builder.
NoId == 0

NoIds == [userRules |-> <<>>, groupRules |-> <<>>]

NoMessages == [shape |-> "absent", error |-> "absent", messages |-> "absent"]

NoReply == [status |-> "null", messages |-> NoMessages]

NoOutcome == [kind |-> "none", text |-> "", carried |-> "", value |-> NoReply]

NoRemoteCall ==
    [op |-> "none", replies |-> <<>>, outcome |-> NoOutcome, sent |-> 0]

NoCall ==
    [op |-> "none", s |-> "s1", F |-> NoFilter, rule |-> NoRule,
     is_user_rule |-> TRUE, args |-> <<>>, before |-> EmptyDoc,
     result |-> <<>>, raised |-> FALSE, clean |-> FALSE, fetched |-> EmptyJson]

NumRules(doc) == Len(doc.userRules) + Len(doc.groupRules)

\* Bookkeeping after a call of session s that may have changed settings[s].
Touched(s) ==
    /\ clean' = [clean EXCEPT ![s] = @ /\ settings'[s] = settings[s]]
    /\ atFetch' = [atFetch EXCEPT ![s] = IF clean'[s] THEN @ ELSE EmptyJson]
    /\ saved' = [saved EXCEPT ![s] = @ /\ settings'[s] = settings[s]]

\* The caller drops what the last call returned and goes on.
Discard ==
    /\ last.op # "none"
    /\ last' = NoCall
    /\ UNCHANGED <<remote, settings, rule, clean, atFetch, saved, ids, heldId, call>>

\* DSSGeneralSettings(client)
Fetch(s) ==
    /\ last.op = "none"
    /\ settings' = [settings EXCEPT ![s] = perform_json_get]
    /\ clean' = [clean EXCEPT ![s] = TRUE]
    /\ atFetch' = [atFetch EXCEPT ![s] = remote]
    /\ saved' = [saved EXCEPT ![s] = FALSE]
    /\ last' = [NoCall EXCEPT !.op = "init", !.s = s]
    /\ UNCHANGED <<remote, rule, ids, heldId, call>>

Save(s) ==
    /\ last.op = "none"
    /\ remote' = save(s)
    /\ clean' = [t \in Sessions |-> IF t = s THEN clean[t] ELSE FALSE]
    /\ atFetch' = [t \in Sessions |-> IF t = s THEN atFetch[t] ELSE EmptyJson]
    /\ saved' = [saved EXCEPT ![s] = TRUE]
    /\ last' = [NoCall EXCEPT !.op = "save", !.s = s, !.before = settings[s],
                              !.clean = clean[s], !.fetched = atFetch[s]]
    /\ UNCHANGED <<settings, rule, ids, heldId, call>>

Add(s, r, is_user_rule) ==
    /\ last.op = "none"
    /\ NumRules(settings[s]) < MaxRules
    /\ settings' = [settings EXCEPT
                       ![s] = add_impersonation_rule(@, r, is_user_rule)]
    /\ Touched(s)
    /\ last' = [NoCall EXCEPT !.op = "add", !.s = s, !.rule = r,
                              !.is_user_rule = is_user_rule,
                              !.before = settings[s]]
    /\ UNCHANGED <<remote, rule, ids, heldId, call>>

Query(s, F) ==
    /\ last.op = "none"
    /\ last' = [NoCall EXCEPT !.op = "query", !.s = s, !.F = F,
                              !.before = settings[s],
                              !.result = get_impersonation_rules(settings[s], F)]
    /\ UNCHANGED <<remote, settings, rule, clean, atFetch, saved, ids, heldId, call>>

Remove(s, F) ==
    LET r == remove_impersonation_rules(settings[s], F)
    IN  /\ last.op = "none"
        /\ settings' = [settings EXCEPT ![s] = r.doc]
        /\ Touched(s)
        /\ last' = [NoCall EXCEPT !.op = "remove", !.s = s, !.F = F,
                                  !.before = settings[s], !.raised = r.raised]
        /\ UNCHANGED <<remote, rule, ids, heldId, call>>

\* The rule store of one session: s1 has fetched the document.
Init ==
    /\ remote \in InitRemotes
    /\ settings = [s \in Sessions |-> json_loads(remote)]
    /\ rule = NoRule
    /\ clean = [s \in Sessions |-> TRUE]
    /\ atFetch = [s \in Sessions |-> remote]
    /\ saved = [s \in Sessions |-> FALSE]
    /\ ids = NoIds
    /\ heldId = NoId
    /\ call = NoRemoteCall
    /\ last = NoCall

Next ==
    \/ Discard
    \/ \E F \in Filters : Query("s1", F)
    \/ \E F \in Filters : Remove("s1", F)
    \/ \E r \in RuleArgs, is_user_rule \in BOOLEAN : Add("s1", r, is_user_rule)

Spec == Init /\ [][Next]_vars

\* Two sessions on one remote document.
InitSessions ==
    /\ remote \in SessionRemotes
    /\ settings = [s \in Sessions |-> json_loads(remote)]
    /\ rule = NoRule
    /\ clean = [s \in Sessions |-> TRUE]
    /\ atFetch = [s \in Sessions |-> remote]
    /\ saved = [s \in Sessions |-> FALSE]
    /\ ids = NoIds
    /\ heldId = NoId
    /\ call = NoRemoteCall
    /\ last = NoCall

NextSessions ==
    \/ Discard
    \/ \E s \in Sessions : Fetch(s)
    \/ \E s \in Sessions : Save(s)
    \/ \E s \in Sessions, r \in SessionRuleArgs : Add(s, r, TRUE)
    \/ \E s \in Sessions, F \in SessionFilters : Remove(s, F)

SpecSessions == InitSessions /\ [][NextSessions]_vars

-----------------------------------------------------------------------------
(* The builders on their own: the caller holds one builder object, fresh or *)
(* wrapping a record, and calls its methods in any order.                  *)

Called(op, args) == last' = [NoCall EXCEPT !.op = op, !.args = args]

NewUserRule ==
    /\ rule' = DSSUserImpersonationRule(<<>>)
    /\ Called("new", <<>>)
    /\ UNCHANGED <<remote, settings, clean, atFetch, saved, ids, heldId, call>>

NewGroupRule ==
    /\ rule' = DSSGroupImpersonationRule(<<>>)
    /\ Called("new", <<>>)
    /\ UNCHANGED <<remote, settings, clean, atFetch, saved, ids, heldId, call>>

WrapUserRule(raw) ==
    /\ rule' = DSSUserImpersonationRule(<<raw>>)
    /\ Called("new", <<>>)
    /\ UNCHANGED <<remote, settings, clean, atFetch, saved, ids, heldId, call>>

WrapGroupRule(raw) ==
    /\ rule' = DSSGroupImpersonationRule(<<raw>>)
    /\ Called("new", <<>>)
    /\ UNCHANGED <<remote, settings, clean, atFetch, saved, ids, heldId, call>>

ScopeGlobal ==
    /\ rule.kind = "user"
    /\ rule' = scope_global(rule)
    /\ Called("scope_global", <<>>)
    /\ UNCHANGED <<remote, settings, clean, atFetch, saved, ids, heldId, call>>

ScopeProject(project_key) ==
    /\ rule.kind = "user"
    /\ rule' = scope_project(rule, project_key)
    /\ Called("scope_project", <<project_key>>)
    /\ UNCHANGED <<remote, settings, clean, atFetch, saved, ids, heldId, call>>

UserIdentity ==
    /\ rule.kind = "user"
    /\ rule' = user_identity(rule)
    /\ Called("identity", <<>>)
    /\ UNCHANGED <<remote, settings, clean, atFetch, saved, ids, heldId, call>>

UserSingle(dss_user, unix_user, hadoop_user) ==
    /\ rule.kind = "user"
    /\ rule' = user_single(rule, dss_user, unix_user, hadoop_user)
    /\ Called("single", <<dss_user, unix_user, hadoop_user>>)
    /\ UNCHANGED <<remote, settings, clean, atFetch, saved, ids, heldId, call>>

UserRegexp(regexp, unix_user, hadoop_user) ==
    /\ rule.kind = "user"
    /\ rule' = user_regexp(rule, regexp, unix_user, hadoop_user)
    /\ Called("regexp", <<regexp, unix_user, hadoop_user>>)
    /\ UNCHANGED <<remote, settings, clean, atFetch, saved, ids, heldId, call>>

GroupIdentity ==
    /\ rule.kind = "group"
    /\ rule' = group_identity(rule)
    /\ Called("identity", <<>>)
    /\ UNCHANGED <<remote, settings, clean, atFetch, saved, ids, heldId, call>>

GroupSingle(dss_group, unix_user, hadoop_user) ==
    /\ rule.kind = "group"
    /\ rule' = group_single(rule, dss_group, unix_user, hadoop_user)
    /\ Called("single", <<dss_group, unix_user, hadoop_user>>)
    /\ UNCHANGED <<remote, settings, clean, atFetch, saved, ids, heldId, call>>

GroupRegexp(regexp, unix_user, hadoop_user) ==
    /\ rule.kind = "group"
    /\ rule' = group_regexp(rule, regexp, unix_user, hadoop_user)
    /\ Called("regexp", <<regexp, unix_user, hadoop_user>>)
    /\ UNCHANGED <<remote, settings, clean, atFetch, saved, ids, heldId, call>>

\* hadoop_user=None is the omitted argument.
HadoopArgs == HadoopUsers \cup {None}

InitBuilder ==
    /\ remote = EmptyJson
    /\ settings = [s \in Sessions |-> EmptyDoc]
    /\ rule \in {DSSUserImpersonationRule(<<>>), DSSGroupImpersonationRule(<<>>)}
    /\ clean = [s \in Sessions |-> TRUE]
    /\ atFetch = [s \in Sessions |-> EmptyJson]
    /\ saved = [s \in Sessions |-> FALSE]
    /\ ids = NoIds
    /\ heldId = NoId
    /\ call = NoRemoteCall
    /\ last = NoCall

NextBuilder ==
    \/ NewUserRule
    \/ NewGroupRule
    \/ \E raw \in WrapPool : WrapUserRule(raw)
    \/ \E raw \in WrapPool : WrapGroupRule(raw)
    \/ ScopeGlobal
    \/ \E p \in Projects : ScopeProject(p)
    \/ UserIdentity
    \/ \E u \in Users, t \in UnixUsers, h \in HadoopArgs : UserSingle(u, t, h)
    \/ \E re \in Regexps, t \in UnixUsers, h \in HadoopArgs : UserRegexp(re, t, h)
    \/ GroupIdentity
    \/ \E g \in Groups, t \in UnixUsers, h \in HadoopArgs : GroupSingle(g, t, h)
    \/ \E re \in Regexps, t \in UnixUsers, h \in HadoopArgs : GroupRegexp(re, t, h)

SpecBuilder == InitBuilder /\ [][NextBuilder]_vars

-----------------------------------------------------------------------------
(* Properties *)

UserPart(views) == SelectSeq(views, LAMBDA v : v.kind = "user")
GroupPart(views) == SelectSeq(views, LAMBDA v : v.kind = "group")

\* The filters that apply to user rules, with the field each one names.
UserFilterFields ==
    {<<"dss_user", "dssUser">>, <<"unix_user", "targetUnix">>,
     <<"hadoop_user", "targetHadoop">>, <<"project_key", "projectKey">>,
     <<"rule_type", "type">>, <<"scope", "scope">>}

\* Record m equals every supplied filter of F that applies to user rules.
SatisfiesUser(m, F) ==
    \A p \in UserFilterFields : F[p[1]] # None => Get(m, p[2]) = F[p[1]]

OnlyProjectP1 == [NoFilter EXCEPT !.project_key = "P1"]

\* C1: the user-rule part of a query result is exactly the user rules that
\* equal every supplied filter (dss_user, unix_user, hadoop_user,
\* project_key, rule_type, scope), each as a user-rule view, when is_user is
\* None or True, and is empty when is_user is False; on the example
\* document, project_key = P1 returns exactly the second record.
C1_UserPartIsExactMatch ==
    last.op = "query" =>
        /\ UserPart(last.result) =
              IF last.F.is_user \in {None, "True"}
              THEN LET sel == SelectSeq(last.before.userRules,
                                        LAMBDA m : SatisfiesUser(m, last.F))
                   IN  [i \in 1..Len(sel) |-> [kind |-> "user", raw |-> sel[i]]]
              ELSE <<>>
        /\ (last.before = ExampleDoc /\ last.F = OnlyProjectP1)
              => last.result = <<[kind |-> "user", raw |-> U2]>>

C1_Witness ==
    /\ last.op = "query"
    /\ last.before = ExampleDoc
    /\ last.F = OnlyProjectP1
    /\ Len(last.result) = 1

NoDuplicates(seq) ==
    \A i, j \in 1..Len(seq) : seq[i] = seq[j] => i = j

\* C2: when no two records of the same list are equal, a query with the
\* filters of the removal that has just returned finds nothing; on the
\* example document, removing project_key = P1 leaves one user rule.
C2_RemoveThenQueryIsEmpty ==
    (/\ last.op = "remove"
     /\ NoDuplicates(last.before.userRules)
     /\ NoDuplicates(last.before.groupRules)) =>
        /\ get_impersonation_rules(settings[last.s], last.F) = <<>>
        /\ (last.before = ExampleDoc /\ last.F = OnlyProjectP1)
              => Len(settings[last.s].userRules) = 1

C2_Witness ==
    /\ last.op = "remove"
    /\ last.before = ExampleDoc
    /\ last.F = OnlyProjectP1
    /\ settings[last.s].userRules = <<U1>>

InSeq(seq, x) == \E i \in 1..Len(seq) : seq[i] = x

\* C3: a removal does not raise and leaves each list equal to its previous
\* content without the records the query matched in it, the others in
\* their order; as many records go as the query returned views.
C3_RemoveDeletesExactlyTheMatches ==
    last.op = "remove" =>
        LET um == user_matches(last.before, last.F)
            gm == group_matches(last.before, last.F)
            after == settings[last.s]
        IN  /\ ~last.raised
            /\ after.userRules =
                  SelectSeq(last.before.userRules, LAMBDA m : ~InSeq(um, m))
            /\ after.groupRules =
                  SelectSeq(last.before.groupRules, LAMBDA m : ~InSeq(gm, m))
            /\ NumRules(last.before) - NumRules(after)
                  = Len(get_impersonation_rules(last.before, last.F))

\* A removal that matched two equal records of one list.
C3_Witness ==
    /\ last.op = "remove"
    /\ Len(last.before.userRules) = 2
    /\ last.before.userRules[1] = last.before.userRules[2]
    /\ settings[last.s].userRules = <<>>

\* F2 supplies every filter F1 supplies, with the same value.
Subsumes(F1, F2) == \A k \in DOMAIN F1 : F1[k] # None => F2[k] = F1[k]

\* The filter combinations F1 with Subsumes(F1, F): each filter of F kept or
\* left out.
Weakenings(F) ==
    [dss_user    : {None, F.dss_user},
     dss_group   : {None, F.dss_group},
     unix_user   : {None, F.unix_user},
     hadoop_user : {None, F.hadoop_user},
     project_key : {None, F.project_key},
     scope       : {None, F.scope},
     rule_type   : {None, F.rule_type},
     is_user     : {None, F.is_user}]

\* C4: every view a query returns is also returned by the query with any
\* part of its filters (is_user included) left out.
C4_QueryNarrowsMonotonically ==
    last.op = "query" =>
        \A F1 \in Weakenings(last.F) :
            /\ Subsumes(F1, last.F)
            /\ LET wider == get_impersonation_rules(last.before, F1)
               IN  \A i \in 1..Len(last.result) : InSeq(wider, last.result[i])

\* A query that returned something, and less than a query with fewer filters.
C4_Witness ==
    /\ last.op = "query"
    /\ last.result # <<>>
    /\ last.F.is_user = "True"
    /\ \E F1 \in Filters :
          /\ Subsumes(F1, last.F)
          /\ Len(get_impersonation_rules(last.before, F1)) > Len(last.result)

RawsOf(views) == [i \in 1..Len(views) |-> views[i].raw]

\* C5: a query result is user-rule views followed by group-rule views, each
\* part in the order of its stored list; with no filter at all it is every
\* user rule then every group rule; the stored lists are as before the query.
C5_UserThenGroupInStoredOrder ==
    last.op = "query" =>
        LET us == UserPart(last.result)
            gs == GroupPart(last.result)
        IN  /\ last.result = us \o gs
            /\ RawsOf(us) = SelectSeq(last.before.userRules,
                                      LAMBDA m : InSeq(RawsOf(us), m))
            /\ RawsOf(gs) = SelectSeq(last.before.groupRules,
                                      LAMBDA m : InSeq(RawsOf(gs), m))
            /\ last.F = NoFilter =>
                  /\ RawsOf(us) = last.before.userRules
                  /\ RawsOf(gs) = last.before.groupRules
            /\ settings[last.s] = last.before

C5_Witness ==
    /\ last.op = "query"
    /\ last.F = NoFilter
    /\ Len(last.before.userRules) >= 1
    /\ Len(last.before.groupRules) >= 1
    /\ Len(last.result) = NumRules(last.before)

\* C6 as stated: the group rules returned are the same as when neither
\* project_key nor rule_type is supplied.
C6_GroupPartIgnoresProjectKeyAndRuleType ==
    last.op = "query" =>
        GroupPart(last.result) =
            GroupPart(get_impersonation_rules(
                last.before,
                [last.F EXCEPT !.project_key = None, !.rule_type = None]))

\* C6 amended: the group rules returned are the same as when project_key is
\* not supplied, and rule_type narrows them: they are the group rules
\* returned without rule_type whose type equals the supplied rule_type.
C6_GroupPartIgnoresProjectKeyOnly ==
    last.op = "query" =>
        /\ GroupPart(last.result) =
              GroupPart(get_impersonation_rules(
                  last.before, [last.F EXCEPT !.project_key = None]))
        /\ last.F.rule_type # None =>
              GroupPart(last.result) =
                  SelectSeq(GroupPart(get_impersonation_rules(
                                last.before,
                                [last.F EXCEPT !.rule_type = None])),
                            LAMBDA v : Get(v.raw, "type") = last.F.rule_type)

\* project_key and rule_type supplied: a group rule of that type is returned,
\* another one of a different type is not.
C6_Witness ==
    /\ last.op = "query"
    /\ last.F.project_key = "P1"
    /\ last.F.rule_type = "SINGLE_MAPPING"
    /\ Len(last.before.groupRules) = 2
    /\ Len(GroupPart(last.result)) = 1

C8_AddAppendsToOneList ==
    last.op = "add" =>
        LET toUser == \/ last.rule.kind = "user"
                      \/ last.rule.kind = "dict" /\ last.is_user_rule
            after == settings[last.s]
        IN  IF toUser
            THEN /\ after.userRules = Append(last.before.userRules, last.rule.raw)
                 /\ after.groupRules = last.before.groupRules
            ELSE /\ after.groupRules = Append(last.before.groupRules, last.rule.raw)
                 /\ after.userRules = last.before.userRules

\* A user builder added with is_user_rule = False after another rule.
C8_Witness ==
    /\ last.op = "add"
    /\ last.rule.kind = "user"
    /\ ~last.is_user_rule
    /\ Len(settings[last.s].userRules) = 2
    /\ settings[last.s].groupRules = <<>>

\* C9: a save by a session that has not changed its copy since it fetched,
\* with no save by another session in between, leaves the remote document
\* equal to the one the session fetched.
C9_FetchSaveRoundTrip ==
    (last.op = "save" /\ last.clean) => remote = last.fetched

C9_Witness ==
    /\ last.op = "save"
    /\ last.clean
    /\ Len(remote.userRules) >= 1
    /\ Len(remote.groupRules) >= 1

\* C10: a save is never refused and leaves the remote document equal to the
\* saving session's copy, whatever the remote document held.
C10_LastSaveWins ==
    /\ last.op = "save" => /\ remote = json_dumps(last.before)
                           /\ ~last.raised
    /\ last.op = "none" => \A s \in Sessions : ENABLED Save(s)

\* Both sessions have saved the copies they hold, which differ, s2 last: the
\* remote document is s2's copy and what s1 saved is no longer in it.
C10_Witness ==
    /\ last.op = "save"
    /\ last.s = "s2"
    /\ saved["s1"] /\ saved["s2"]
    /\ ~clean["s1"] /\ ~last.clean
    /\ settings["s1"] # settings["s2"]
    /\ remote = json_dumps(settings["s2"])
    /\ remote # json_dumps(settings["s1"])

-----------------------------------------------------------------------------
(* Code env and cluster operations: DSSCodeEnv.delete, set_jupyter_support, *)
(* update_packages, DSSCluster.start, stop.  A reply of the transport is    *)
(* an exception ("raise"), a null body or a JSON object; its messages       *)
(* member is absent, null or an object with an error flag and a message     *)
(* list.  replies are the replies the transport gives to successive         *)
(* requests.                                                                *)

MessagesValues ==
    {NoMessages, [shape |-> "null", error |-> "absent", messages |-> "absent"]}
      \cup [shape : {"object"}, error : {"absent", "true", "false"},
            messages : {"absent", "m1"}]

Replies ==
    {[status |-> "raise", messages |-> NoMessages], NoReply}
      \cup [status : {"object"}, messages : MessagesValues]

Raise(text, carried, reply) ==
    [kind |-> "raise", text |-> text, carried |-> carried, value |-> reply]

\* resp.get('messages', {}).get('error', False)
ErrorFlag(resp) ==
    resp.messages.shape = "object" /\ resp.messages.error = "true"

\* json.dumps(resp.get('messages', {}).get('messages', {}))
DumpedMessages(resp) ==
    IF resp.messages.messages = "absent" THEN "{}" ELSE resp.messages.messages

check_response_no_flag(reply, no_data, failed) ==
    IF reply.status = "raise" THEN Raise("transport error", "", reply)
    ELSE IF reply.status = "null" THEN Raise(no_data, "", reply)
    ELSE IF reply.messages.shape = "null" THEN Raise("AttributeError", "", reply)
    ELSE [kind |-> "return", text |-> "", carried |-> "", value |-> reply]

\* resp = self.client._perform_json(...) and the two checks that follow it.
\* An exception of the transport propagates; messages: null makes the
\* second .get raise AttributeError.
check_response(reply, no_data, failed) ==
    IF reply.status = "raise" THEN Raise("transport error", "", reply)
    ELSE IF reply.status = "null" THEN Raise(no_data, "", reply)
    ELSE IF reply.messages.shape = "null" THEN Raise("AttributeError", "", reply)
    ELSE IF ErrorFlag(reply) THEN Raise(failed, DumpedMessages(reply), reply)
    ELSE [kind |-> "return", text |-> "", carried |-> "", value |-> reply]

\* Each operation sends one request and handles its reply.
DSSCodeEnv_delete(replies) ==
    [outcome |-> check_response(replies[1], "Env deletion returned no data",
                                "Env deletion failed"),
     sent |-> 1]

DSSCodeEnv_set_jupyter_support(replies) ==
    [outcome |-> check_response(replies[1], "Env update returned no data",
                                "Env update failed"),
     sent |-> 1]

DSSCodeEnv_update_packages(replies) ==
    [outcome |-> check_response(replies[1], "Env update returned no data",
                                "Env update failed"),
     sent |-> 1]

DSSCluster_start(replies) ==
    [outcome |-> check_response(replies[1], "Env update returned no data",
                                "Cluster operation failed"),
     sent |-> 1]

DSSCluster_stop(replies) ==
    [outcome |-> check_response(replies[1], "Env update returned no data",
                                "Cluster operation failed"),
     sent |-> 1]

Ended(op, replies, r) ==
    [op |-> op, replies |-> replies, outcome |-> r.outcome, sent |-> r.sent]

CodeEnvDelete(replies) ==
    /\ call' = Ended("DSSCodeEnv.delete", replies, DSSCodeEnv_delete(replies))
    /\ UNCHANGED <<remote, settings, rule, clean, atFetch, saved, ids, heldId, last>>

CodeEnvSetJupyterSupport(replies) ==
    /\ call' = Ended("DSSCodeEnv.set_jupyter_support", replies,
                     DSSCodeEnv_set_jupyter_support(replies))
    /\ UNCHANGED <<remote, settings, rule, clean, atFetch, saved, ids, heldId, last>>

CodeEnvUpdatePackages(replies) ==
    /\ call' = Ended("DSSCodeEnv.update_packages", replies,
                     DSSCodeEnv_update_packages(replies))
    /\ UNCHANGED <<remote, settings, rule, clean, atFetch, saved, ids, heldId, last>>

ClusterStart(replies) ==
    /\ call' = Ended("DSSCluster.start", replies, DSSCluster_start(replies))
    /\ UNCHANGED <<remote, settings, rule, clean, atFetch, saved, ids, heldId, last>>

ClusterStop(replies) ==
    /\ call' = Ended("DSSCluster.stop", replies, DSSCluster_stop(replies))
    /\ UNCHANGED <<remote, settings, rule, clean, atFetch, saved, ids, heldId, last>>

InitOps ==
    /\ remote = EmptyJson
    /\ settings = [s \in Sessions |-> EmptyDoc]
    /\ rule = NoRule
    /\ clean = [s \in Sessions |-> TRUE]
    /\ atFetch = [s \in Sessions |-> EmptyJson]
    /\ saved = [s \in Sessions |-> FALSE]
    /\ ids = NoIds
    /\ heldId = NoId
    /\ call = NoRemoteCall
    /\ last = NoCall

NextOps ==
    \/ \E replies \in Replies \X Replies : CodeEnvDelete(replies)
    \/ \E replies \in Replies \X Replies : CodeEnvSetJupyterSupport(replies)
    \/ \E replies \in Replies \X Replies : CodeEnvUpdatePackages(replies)
    \/ \E replies \in Replies \X Replies : ClusterStart(replies)
    \/ \E replies \in Replies \X Replies : ClusterStop(replies)

SpecOps == InitOps /\ [][NextOps]_vars

NoDataTexts == {"Env deletion returned no data", "Env update returned no data"}

FailedTexts ==
    {"Env deletion failed", "Env update failed", "Cluster operation failed"}

\* C11: each of the five operations sends one request; a null body makes it
\* raise a 'no data' error, a true error flag in the messages makes it raise
\* an error carrying the messages, an exception of the transport comes out
\* as it is, and the response is returned only when it is an object whose
\* error flag is not true, and then it is that response.
C11_ResponseChecked ==
    call.op # "none" =>
        LET resp == call.replies[1]
            o == call.outcome
        IN  /\ call.sent = 1
            /\ resp.status = "raise" =>
                  o.kind = "raise" /\ o.text = "transport error"
            /\ resp.status = "null" =>
                  o.kind = "raise" /\ o.text \in NoDataTexts
            /\ (resp.status = "object" /\ ErrorFlag(resp)) =>
                  /\ o.kind = "raise"
                  /\ o.text \in FailedTexts
                  /\ o.carried = DumpedMessages(resp)
            /\ o.kind = "return" =>
                  /\ resp.status = "object"
                  /\ ~ErrorFlag(resp)
                  /\ o.value = resp

\* A cluster stop answered with an error flag and a message list, the next
\* reply being a success that is never asked for.
C11_Witness ==
    /\ call.op = "DSSCluster.stop"
    /\ call.replies[1].messages.error = "true"
    /\ call.replies[1].messages.messages = "m1"
    /\ call.replies[2].status = "object"
    /\ ~ErrorFlag(call.replies[2])
    /\ call.outcome.kind = "raise"
    /\ call.outcome.carried = "m1"

OnlyDssUser(u) == [NoFilter EXCEPT !.dss_user = u]

\* C13: with is_user = None, the group rules a query returns are those it
\* returns without dss_user, project_key and scope, and the user rules it
\* returns are those it returns without dss_group; a removal with dss_user as
\* its only filter leaves no group rule in the document.
C13_VariantFiltersSpareTheOtherVariant ==
    /\ (last.op = "query" /\ last.F.is_user = None) =>
          /\ GroupPart(last.result) =
                GroupPart(get_impersonation_rules(
                    last.before,
                    [last.F EXCEPT !.dss_user = None, !.project_key = None,
                                   !.scope = None]))
          /\ UserPart(last.result) =
                UserPart(get_impersonation_rules(
                    last.before, [last.F EXCEPT !.dss_group = None]))
    /\ (last.op = "remove" /\ \E u \in Users : last.F = OnlyDssUser(u)) =>
          /\ settings[last.s].groupRules = <<>>
          /\ ~last.raised

\* remove_impersonation_rules(dss_user='alice') on a document with a user rule
\* of alice and a group rule: both are gone.
C13_Witness ==
    /\ last.op = "remove"
    /\ last.F = OnlyDssUser("alice")
    /\ Len(last.before.userRules) = 1
    /\ Len(last.before.groupRules) = 1
    /\ settings[last.s] = EmptyDoc

-----------------------------------------------------------------------------
(* Views and builders share their record with the document.  Python keeps   *)
(* references: a list element, the raw of a view wrapping it and the raw of *)
(* a builder appended to a list are one dict object.  ids names the object  *)
(* at each position of s1's lists, heldId the object that is rule.raw;      *)
(* positions holding the same object hold the same record.                  *)

UsedIds ==
    {ids.userRules[i] : i \in 1..Len(ids.userRules)}
      \cup {ids.groupRules[i] : i \in 1..Len(ids.groupRules)}

\* A dict object that is in no list.
NewId == CHOOSE n \in 1..(Cardinality(UsedIds) + 1) : n \notin UsedIds

Indices(seq) == [i \in 1..Len(seq) |-> i]

\* The positions of the list comprehensions' survivors: a comprehension
\* keeps or drops each element on its own.
user_positions(doc, F) ==
    SelectSeq(Indices(doc.userRules),
              LAMBDA i : user_matches([userRules |-> <<doc.userRules[i]>>,
                                       groupRules |-> <<>>], F) # <<>>)

group_positions(doc, F) ==
    SelectSeq(Indices(doc.groupRules),
              LAMBDA i : group_matches([userRules |-> <<>>,
                                        groupRules |-> <<doc.groupRules[i]>>], F) # <<>>)

\* Where each view of get_impersonation_rules(doc, F) comes from.
view_origins(doc, F) ==
    LET up == user_positions(doc, F)
        gp == group_positions(doc, F)
    IN  [k \in 1..Len(up) |-> [list |-> "userRules", pos |-> up[k]]]
          \o [k \in 1..Len(gp) |-> [list |-> "groupRules", pos |-> gp[k]]]

\* A view built on a copy of the record: self.raw = dict(raw)
view_raw_copied(id) == NewId

\* DSSUserImpersonationRule(m): self.raw = raw, the list element itself
view_raw(id) == id

\* self.raw[key] = value on the held object: every position holding the
\* object shows the record as it is now.
WriteThrough(doc, raw) ==
    [userRules  |-> [i \in 1..Len(doc.userRules) |->
                        IF ids.userRules[i] = heldId THEN raw
                        ELSE doc.userRules[i]],
     groupRules |-> [i \in 1..Len(doc.groupRules) |->
                        IF ids.groupRules[i] = heldId THEN raw
                        ELSE doc.groupRules[i]]]

\* rule = DSSUserImpersonationRule() or DSSGroupImpersonationRule()
HeldNew(b) ==
    /\ last.op = "none"
    /\ rule' = b
    /\ heldId' = NewId
    /\ last' = [NoCall EXCEPT !.op = "new"]
    /\ UNCHANGED <<remote, settings, clean, atFetch, saved, ids, call>>

\* rule = settings.get_impersonation_rules(F)[k - 1]
TakeView(F, k) ==
    LET views == get_impersonation_rules(settings["s1"], F)
        from == view_origins(settings["s1"], F)
    IN  /\ last.op = "none"
        /\ k \in 1..Len(views)
        /\ rule' = views[k]
        /\ heldId' = view_raw(ids[from[k].list][from[k].pos])
        /\ last' = [NoCall EXCEPT !.op = "view", !.F = F,
                                  !.args = <<from[k].list, from[k].pos>>,
                                  !.before = settings["s1"], !.result = views]
        /\ UNCHANGED <<remote, settings, clean, atFetch, saved, ids, call>>

\* settings.add_impersonation_rule(rule, is_user_rule)
AddHeld(is_user_rule) ==
    LET doc == add_impersonation_rule(settings["s1"], rule, is_user_rule)
    IN  /\ last.op = "none"
        /\ rule.kind # "none"
        /\ NumRules(settings["s1"]) < MaxRules
        /\ settings' = [settings EXCEPT !["s1"] = doc]
        /\ ids' = IF Len(doc.userRules) > Len(settings["s1"].userRules)
                  THEN [ids EXCEPT !.userRules = Append(@, heldId)]
                  ELSE [ids EXCEPT !.groupRules = Append(@, heldId)]
        /\ Touched("s1")
        /\ last' = [NoCall EXCEPT !.op = "add_held", !.rule = rule,
                                  !.is_user_rule = is_user_rule,
                                  !.before = settings["s1"]]
        /\ UNCHANGED <<remote, rule, heldId, call>>

\* A builder method called on the held builder or view; b is the builder
\* after the call.
HeldCalled(b) ==
    /\ last.op = "none"
    /\ rule' = b
    /\ settings' = [settings EXCEPT !["s1"] = WriteThrough(@, b.raw)]
    /\ Touched("s1")
    /\ last' = [NoCall EXCEPT !.op = "call", !.rule = rule,
                              !.before = settings["s1"]]
    /\ UNCHANGED <<remote, ids, heldId, call>>

HeldScopeGlobal ==
    /\ rule.kind = "user"
    /\ HeldCalled(scope_global(rule))

HeldScopeProject(project_key) ==
    /\ rule.kind = "user"
    /\ HeldCalled(scope_project(rule, project_key))

HeldUserSingle(dss_user, unix_user, hadoop_user) ==
    /\ rule.kind = "user"
    /\ HeldCalled(user_single(rule, dss_user, unix_user, hadoop_user))

HeldGroupSingle(dss_group, unix_user, hadoop_user) ==
    /\ rule.kind = "group"
    /\ HeldCalled(group_single(rule, dss_group, unix_user, hadoop_user))

ViewFilters ==
    {NoFilter, OnlyProjectP1, [NoFilter EXCEPT !.rule_type = "SINGLE_MAPPING"]}

InitViews ==
    /\ remote \in InitRemotes
    /\ settings = [s \in Sessions |-> json_loads(remote)]
    /\ rule = NoRule
    /\ clean = [s \in Sessions |-> TRUE]
    /\ atFetch = [s \in Sessions |-> remote]
    /\ saved = [s \in Sessions |-> FALSE]
    /\ ids = [userRules  |-> Indices(remote.userRules),
              groupRules |-> [i \in 1..Len(remote.groupRules) |->
                                 Len(remote.userRules) + i]]
    /\ heldId = NoId
    /\ call = NoRemoteCall
    /\ last = NoCall

NextViews ==
    \/ Discard
    \/ HeldNew(DSSUserImpersonationRule(<<>>))
    \/ HeldNew(DSSGroupImpersonationRule(<<>>))
    \/ \E F \in ViewFilters, k \in 1..MaxRules : TakeView(F, k)
    \/ \E is_user_rule \in BOOLEAN : AddHeld(is_user_rule)
    \/ HeldScopeGlobal
    \/ \E p \in Projects : HeldScopeProject(p)
    \/ HeldUserSingle("alice", "u_alice", None)
    \/ HeldGroupSingle("staff", "u_alice", None)
    \/ Query("s1", NoFilter)

SpecViews == InitViews /\ [][NextViews]_vars

ListNames == {"userRules", "groupRules"}

\* The positions of s1's lists that hold the object the caller's builder or
\* view has as its raw.
HeldPositions ==
    {q \in ListNames \X (1..MaxRules) :
        q[2] <= Len(ids[q[1]]) /\ ids[q[1]][q[2]] = heldId}

OtherPositions ==
    {q \in ListNames \X (1..MaxRules) :
        q[2] <= Len(ids[q[1]]) /\ ids[q[1]][q[2]] # heldId}

\* C12: a view returned by a query, and a builder passed to add, has as its
\* raw the very record stored in the list; after a builder call on it every
\* position holding that record shows the record as changed, every other
\* stored record and the length of both lists are as before, and a later
\* query and the body of a later save show the changed record.
C12_ViewSharesStoredRecord ==
    LET doc == settings["s1"]
    IN  /\ last.op = "view" =>
              /\ <<last.args[1], last.args[2]>> \in HeldPositions
              /\ \E k \in 1..Len(last.result) : last.result[k] = rule
        /\ last.op = "add_held" =>
              LET L == IF last.rule.kind = "user" THEN "userRules" ELSE "groupRules"
              IN  <<L, Len(doc[L])>> \in HeldPositions
        /\ \A q \in HeldPositions : doc[q[1]][q[2]] = rule.raw
        /\ last.op = "call" =>
              /\ Len(doc.userRules) = Len(last.before.userRules)
              /\ Len(doc.groupRules) = Len(last.before.groupRules)
              /\ \A q \in OtherPositions :
                    doc[q[1]][q[2]] = last.before[q[1]][q[2]]
        /\ \A q \in HeldPositions : save("s1")[q[1]][q[2]] = to_json(rule.raw)
        /\ last.op = "query" =>
              \A q \in HeldPositions :
                  last.result[IF q[1] = "userRules" THEN q[2]
                              ELSE Len(doc.userRules) + q[2]].raw = rule.raw

\* scope_global called on the view of the example document's second user
\* rule: the stored second rule is now GLOBAL, the first is as it was.
C12_Witness ==
    /\ last.op = "call"
    /\ Len(settings["s1"].userRules) = 2
    /\ ids.userRules[2] = heldId
    /\ ids.userRules[1] # heldId
    /\ rule.raw["dssUser"] = "alice"
    /\ rule.raw["targetHadoop"] = Absent
    /\ last.before.userRules[2]["scope"] = "PROJECT"
    /\ settings["s1"].userRules[2]["scope"] = "GLOBAL"
    /\ settings["s1"].userRules[1] = last.before.userRules[1]

====
